---- MODULE Spec2Model ----
(***************************************************************************)
(* Model of the Ship24 Home Assistant integration: the coordinator         *)
(* (coordinator.py), the application layer cache (app/api.py), the backend *)
(* (ship24/adapter.py, Ship24Backend) and the provider seen through the    *)
(* client (ship24/client.py), whose request loop and create_tracker have   *)
(* a specification of their own (SpecClient).                              *)
(*                                                                         *)
(* Everything runs on one asyncio event loop: code between two awaits that *)
(* really suspend (the HTTP calls of the client) is one atomic step.  An   *)
(* action of this module is therefore either a whole handler, or the part  *)
(* of a handler between two provider calls.                                *)
(***************************************************************************)
EXTENDS Integers, Sequences, FiniteSets, TLC

\* Tracking numbers used as inputs (opaque strings in the code), and the
\* watch list of three of the partial-failure scenario.
Ids == {"a", "b"}
ThreeIds == {"a", "b", "c"}

\* Number of host-facing operations (sweep, add, remove, manual update, set
\* custom name, webhook) a run begins.
MaxOps == 3

\* Number of create_tracker calls a run of the client begins.
MaxCalls == 2

\* Custom names used as inputs.  A name is a one-element tuple and Python's
\* None the empty tuple, so that the two compare.
Names == {<<"Birthday gift">>}
None == <<>>

\* What one provider request of the client ends with, once its retries are
\* over: a response carrying tracker.trackingNumber, a response without it,
\* a connection timeout (transient) or an HTTP 4xx error (permanent).
Outcomes == {"ok", "no_number", "conn_timeout", "http_4xx"}

VARIABLES
    tracking_numbers,   \* coordinator._tracking_numbers (the watch list)
    persisted,          \* entry.data[CONF_TRACKING_NUMBERS]
    packages,           \* api._packages: tracking number -> PackageData
    last_error,         \* coordinator._last_error
    last_message,       \* coordinator._last_message
    delete_calls,       \* tracking numbers of the DELETE /trackers requests issued
    sweep,              \* the running or last _async_update_data call
    adding,             \* the running async_add_tracking call
    updating,           \* the running async_update_package call
    result,             \* what the last completed api or coordinator call returned
    ops,                \* number of host-facing operations begun so far
    upstream,           \* the provider's trackers: tracking number -> status
    request,            \* the running or last Ship24Client._request call
    creating,           \* the running or last Ship24Client.create_tracker call
    calls,              \* number of create_tracker calls begun so far
    session,            \* the client's HTTP sessions: the supplied one, the request's own
    norm                \* the running or last call of a normalizer function

coordVars == <<tracking_numbers, persisted, packages, last_error, last_message,
               delete_calls, sweep, adding, updating, result, ops>>
clientVars == <<upstream, request, creating, calls, session>>
vars == <<coordVars, clientVars, norm>>

----------------------------------------------------------------------------
(* Data model: app/models.py and the normalizer's output.                   *)

\* PackageData as built by to_package_data: custom_name is not passed to the
\* constructor, so it takes the dataclass default None.
NewPackageData(tn) == [tracking_number |-> tn, custom_name |-> None]

\* Python truthiness of an Optional[str] custom name.
Truthy(name) == name # None

\* dict helpers: a dict is a function whose DOMAIN is its key set.
DictSet(d, k, v) == [x \in (DOMAIN d) \cup {k} |-> IF x = k THEN v ELSE d[x]]
DictDel(d, k) == [x \in (DOMAIN d) \ {k} |-> d[x]]
EmptyDict == [x \in {} |-> None]

\* An Optional[PackageData] is a set with at most one record.
Some(p) == {p}
Nothing == {}
TheOne(s) == CHOOSE p \in s : TRUE

\* list(set) and set(list): the persisted watch list is a list of the set's
\* elements in some order (each element once).
ListOf(S) == CHOOSE s \in [1..Cardinality(S) -> S] : {s[i] : i \in DOMAIN s} = S
SetOf(l) == {l[i] : i \in DOMAIN l}

----------------------------------------------------------------------------
(* Provider client: ship24/client.py, class Ship24Client.                   *)

\* for attempt in range(MAX_RETRIES); delay = RETRY_DELAY_BASE * (2 ** attempt).
MAX_RETRIES == 3
RETRY_DELAY_BASE == 2

\* What one attempt of a request can raise:
\*   connector      aiohttp.ClientConnectorError (connection refused, DNS)
\*   server_timeout aiohttp.ServerTimeoutError (connect or socket read timeout)
\*   total_timeout  asyncio.TimeoutError (the total budget REQUEST_TIMEOUT ran out)
\*   conn_reset     aiohttp.ClientOSError, "Connection reset by peer"
\*   http_401       aiohttp.ClientResponseError of raise_for_status, "Unauthorized"
\*   http_408       aiohttp.ClientResponseError of raise_for_status, "Request Timeout"
\*   content_type   aiohttp.ContentTypeError of response.json()
\*   json_decode    json.JSONDecodeError of response.json()
Errors ==
    {"connector", "server_timeout", "total_timeout", "conn_reset",
     "http_401", "http_408", "content_type", "json_decode"}

\* The errors that are instances of aiohttp.ClientError.
ClientErrors ==
    {"connector", "server_timeout", "conn_reset", "http_401", "http_408",
     "content_type"}

\* What one attempt ends with.
AttemptOutcomes == {"ok"} \cup Errors

\* str(err).lower() holds one of 'timeout', 'dns', 'connection', 'network',
\* 'resolve' (asked only of the errors their class does not decide).
HasKeyword(err) == err \in {"conn_reset", "http_408"}

\* Variant: every aiohttp.ClientError counts as retryable.
ClientIsRetryableErrorAnyClientError(err) ==
    \/ err \in {"connector", "server_timeout", "total_timeout"}
    \/ err \in ClientErrors

\* Ship24Client._is_retryable_error: by class first, then by message.
ClientIsRetryableError(err) ==
    \/ err \in {"connector", "server_timeout", "total_timeout"}
    \/ err \in ClientErrors /\ HasKeyword(err)

\* Variant: the attempt counter goes on from where the previous call that
\* raised left it.
RequestStartCarried(prev, endpoint) ==
    [pc |-> "attempt", endpoint |-> endpoint,
     attempt |-> IF prev.pc = "raised" THEN prev.attempt ELSE 0,
     made |-> <<>>, sleeps |-> <<>>, listed |-> {}]

\* _request up to its first attempt: "for attempt in range(MAX_RETRIES)"
\* starts at 0 whatever the previous call prev did.  made lists what the
\* attempts of this call ended with, sleeps the delays it slept, listed the
\* active trackers a list response carried.
RequestStart(prev, endpoint) ==
    [pc |-> "attempt", endpoint |-> endpoint, attempt |-> 0,
     made |-> <<>>, sleeps |-> <<>>, listed |-> {}]

\* One attempt of _request ends with o: return the response, sleep before
\* the next attempt ("except aiohttp.ClientError", retryable and not the last
\* attempt), or raise ("else: raise", and "except Exception: raise").
RequestAfterAttempt(req, o) ==
    LET made == Append(req.made, o) IN
    IF o = "ok"
    THEN [req EXCEPT !.pc = "returned", !.made = made]
    ELSE IF o \in ClientErrors
    THEN IF ClientIsRetryableError(o) /\ req.attempt < MAX_RETRIES - 1
         THEN [req EXCEPT !.pc = "sleep", !.made = made,
                          !.sleeps = Append(@, RETRY_DELAY_BASE * (2 ^ req.attempt))]
         ELSE [req EXCEPT !.pc = "raised", !.made = made]
    ELSE [req EXCEPT !.pc = "raised", !.made = made]

\* The provider's trackers: "none", "active" (isSubscribed and isTracked) or
\* "inactive" (a tracker that is not both).
TrackerStatus == {"none", "active", "inactive"}
NoTrackers == [tn \in Ids |-> "none"]

\* The list get_trackers_list keeps of a response: the active trackers.
ActiveTrackers(up) == {tn \in Ids : up[tn] = "active"}

\* get_trackers_list: the filtered list, or [] when the request raised.
GetTrackersList(req) == IF req.pc = "returned" THEN req.listed ELSE {}

\* find_tracker: whether the list holds the tracking number.
FindTracker(req, tn) == tn \in GetTrackersList(req)

IdleRequest ==
    [pc |-> "idle", endpoint |-> "", attempt |-> 0, made |-> <<>>,
     sleeps |-> <<>>, listed |-> {}]

IdleCreate == [pc |-> "idle", tn |-> "", ret |-> "none"]

\* The client's sessions after __init__(api_key, session): whether one was
\* supplied (self._session is not None), whether the client has closed it,
\* and the temporary session of the running or last request ("none", "open"
\* or "closed").
NoSession(supplied) == [supplied |-> supplied, supplied_closed |-> FALSE, temp |-> "none"]

\* "use_temporary_session = self._session is None; session = self._session
\* or aiohttp.ClientSession()".
SessionOnRequestStart(sess) ==
    IF sess.supplied THEN sess ELSE [sess EXCEPT !.temp = "open"]

\* Variant: the session is closed after the try block, not in a finally.
SessionAfterAttemptNoFinally(sess, req) ==
    IF req.pc = "returned" /\ ~sess.supplied
    THEN [sess EXCEPT !.temp = "closed"]
    ELSE sess

\* The finally block of _request, run when the attempt that made the request
\* req ended it (return or raise): "if use_temporary_session: await
\* session.close()".  A sleep before the next attempt stays in the try.
SessionAfterAttempt(sess, req) ==
    IF req.pc \in {"returned", "raised"} /\ ~sess.supplied
    THEN [sess EXCEPT !.temp = "closed"]
    ELSE sess

\* No normalizer call is running.
IdleNorm == [pc |-> "idle"]

(***************************************************************************)
(* Normalizer: ship24/adapter.py, class Ship24Adapter.                      *)
(*                                                                          *)
(* A string of the payload that is matched against words (a milestone, a    *)
(* status code) is the tuple of its parts between underscores, so that      *)
(* "in" is a search for a run of parts; NoStr is a missing, null or empty   *)
(* string.  A label is a one-element tuple.                                 *)
(***************************************************************************)

\* Number of raw events in an events list.
MaxEvents == 2

NoStr == <<>>

\* The instants and wall-clock times a timestamp can name.
Times == {1, 2}

\* A date string of the payload: missing or null, empty, not a date, an ISO
\* date with a UTC offset (or Z) naming the instant t, or one without offset
\* naming the wall-clock time t.
NoDate == [kind |-> "none", t |-> 0]
DateStrs ==
    {NoDate, [kind |-> "empty", t |-> 0], [kind |-> "garbage", t |-> 0]}
    \cup {[kind |-> k, t |-> t] : k \in {"aware", "naive"}, t \in Times}

\* Python truthiness of an Optional[str] date.
TruthyDate(d) == d.kind \notin {"none", "empty"}

\* x or y
Or(x, y) == IF TruthyDate(x) THEN x ELSE y

\* _parse_datetime: None for a falsy or unparseable string, else a datetime,
\* offset-aware exactly when the string carries an offset.
ParseDatetime(d) ==
    IF ~TruthyDate(d) THEN Nothing
    ELSE IF d.kind = "garbage" THEN Nothing
    ELSE Some([aware |-> d.kind = "aware", t |-> d.t])

\* str.lower() of the parts used here.
LowerPart(w) ==
    CASE w = "Delivered" -> "delivered"
      [] w = "DELIVERED" -> "delivered"
      [] w = "DELIVERY"  -> "delivery"
      [] OTHER -> w
Lower(s) == [i \in DOMAIN s |-> LowerPart(s[i])]

\* pat in s
Contains(s, pat) ==
    \E i \in 1..(Len(s) - Len(pat) + 1) : SubSeq(s, i, i + Len(pat) - 1) = pat

\* status_map
StatusMap ==
    (<<"info", "received">> :> [status |-> "pending", status_text |-> <<"Info Received">>])
    @@ (<<"in", "transit">> :> [status |-> "in_transit", status_text |-> <<"In Transit">>])
    @@ (<<"out", "for", "delivery">> :>
           [status |-> "out_for_delivery", status_text |-> <<"Out for Delivery">>])
    @@ (<<"delivered">> :> [status |-> "delivered", status_text |-> <<"Delivered">>])
    @@ (<<"exception">> :> [status |-> "exception", status_text |-> <<"Exception">>])
    @@ (<<"failed", "attempt">> :>
           [status |-> "exception", status_text |-> <<"Failed Attempt">>])
    @@ (<<"available", "for", "pickup">> :>
           [status |-> "in_transit", status_text |-> <<"Available for Pickup">>])

\* Variant: a milestone that is not in the table gets the label "Unknown".
UnmappedMilestoneLabelled(m) == [status |-> "unknown", status_text |-> <<"Unknown">>]

\* status_map.get's default: unknown, with the milestone as it came.
UnmappedMilestone(m) == [status |-> "unknown", status_text |-> m]

\* Variant: "failed" is not looked for.
StatusCodeOverrideNoFailed(c) ==
    LET lc == Lower(c) IN
    IF c = NoStr THEN Nothing
    ELSE IF Contains(lc, <<"delivery", "delivered">>)
    THEN Some([status |-> "delivered", status_text |-> <<"Delivered">>])
    ELSE IF Contains(lc, <<"delivery", "out", "for", "delivery">>)
    THEN Some([status |-> "out_for_delivery", status_text |-> <<"Out for Delivery">>])
    ELSE IF Contains(lc, <<"exception">>)
    THEN Some([status |-> "exception", status_text |-> <<"Exception">>])
    ELSE Nothing

\* The "if status_code:" block: what the status code overrides the milestone
\* with, if anything.
StatusCodeOverride(c) ==
    LET lc == Lower(c) IN
    IF c = NoStr THEN Nothing
    ELSE IF Contains(lc, <<"delivery", "delivered">>)
    THEN Some([status |-> "delivered", status_text |-> <<"Delivered">>])
    ELSE IF Contains(lc, <<"delivery", "out", "for", "delivery">>)
    THEN Some([status |-> "out_for_delivery", status_text |-> <<"Out for Delivery">>])
    ELSE IF Contains(lc, <<"exception">>) \/ Contains(lc, <<"failed">>)
    THEN Some([status |-> "exception", status_text |-> <<"Exception">>])
    ELSE Nothing

\* _map_status_milestone
MapStatusMilestone(m, c) ==
    IF m = NoStr
    THEN [status |-> "unknown", status_text |-> <<"Unknown">>]
    ELSE LET fromMilestone == IF Lower(m) \in DOMAIN StatusMap
                              THEN StatusMap[Lower(m)]
                              ELSE UnmappedMilestone(m)
             override == StatusCodeOverride(c)
         IN IF override # Nothing THEN TheOne(override) ELSE fromMilestone

\* A raw event: two of the timestamp fields _parse_events looks at (the
\* first and the last of its four candidates), the location and the courier
\* code.
Locations == {None, <<"X">>, <<"Y">>}
RawEvents ==
    [occurrenceDatetime : DateStrs,
     timestamp : {NoDate, [kind |-> "aware", t |-> 1]},
     location : Locations,
     courierCode : {None}]

\* The date string _parse_events parses: the first truthy candidate.
EventDateStr(e) == Or(e.occurrenceDatetime, Or(NoDate, Or(NoDate, e.timestamp)))

\* TrackingEvent(...) of a raw event e with the parsed timestamp ts; the
\* event carries no milestone, status code or status text.
NewTrackingEvent(e, ts) ==
    [timestamp |-> ts, location |-> e.location,
     status |-> MapStatusMilestone(NoStr, NoStr).status,
     status_text |-> MapStatusMilestone(NoStr, NoStr).status_text,
     latitude |-> None, longitude |-> None, raw_data |-> e]

\* The loop of _parse_events: the events with a timestamp, in input order.
RECURSIVE KeptEvents(_)
KeptEvents(evs) ==
    IF evs = <<>> THEN <<>>
    ELSE LET ts == ParseDatetime(EventDateStr(Head(evs))) IN
         IF ts = Nothing THEN KeptEvents(Tail(evs))
         ELSE <<NewTrackingEvent(Head(evs), TheOne(ts))>> \o KeptEvents(Tail(evs))

\* Comparing an offset-aware datetime with a naive one raises TypeError, and
\* a sort of two or more elements compares each of them with another.
SortRaises(events) ==
    \E i, j \in DOMAIN events : events[i].timestamp.aware # events[j].timestamp.aware

\* list.sort(key=timestamp): stable, ascending.
RECURSIVE SortedByTimestamp(_)
SortedByTimestamp(events) ==
    IF events = <<>> THEN <<>>
    ELSE LET n    == Len(events)
             init == SortedByTimestamp(SubSeq(events, 1, n - 1))
             e    == events[n]
             k    == Cardinality({i \in DOMAIN init :
                                     init[i].timestamp.t <= e.timestamp.t})
         IN SubSeq(init, 1, k) \o <<e>> \o SubSeq(init, k + 1, n - 1)

\* _parse_events
ParseEvents(evs) ==
    LET kept == KeptEvents(evs) IN
    IF SortRaises(kept)
    THEN [raised |-> TRUE, err |-> "TypeError", events |-> <<>>]
    ELSE [raised |-> FALSE, err |-> "", events |-> SortedByTimestamp(kept)]

\* A raw event of a tracking's "events" array that also names a courier.
CourierEvents ==
    [occurrenceDatetime : {[kind |-> "aware", t |-> 1]},
     timestamp : {NoDate},
     location : {<<"X">>},
     courierCode : {None, <<"ups">>}]

\* tracking["events"]: the key is absent, null, a string, or a list.
EventsField(shape, list) == [shape |-> shape, list |-> list]

\* tracker["courierCode"]: the key is absent, a string, or a list.
CourierField(kind, codes) == [kind |-> kind, codes |-> codes]

\* shipment["delivery"] and tracking["shipment"]: absent, null or a dict.
DeliveryField(shape, d) == [shape |-> shape, estimatedDeliveryDate |-> d]
ShipmentField(shape, m, c, delivery) ==
    [shape |-> shape, statusMilestone |-> m, statusCode |-> c, delivery |-> delivery]

\* statistics["timestamps"] and tracking["statistics"]: absent, null or a
\* dict; of the four datetimes the first and the last.
TimestampsField(shape, delivered, received) ==
    [shape |-> shape, deliveredDatetime |-> delivered,
     infoReceivedDatetime |-> received]
StatisticsField(shape, timestamps) == [shape |-> shape, timestamps |-> timestamps]

\* PackageData(...) as to_package_data fills it.
NormalizedPackageData(tn, st, carrier, lastUpdate, eta, latest, events) ==
    [tracking_number |-> tn,
     status |-> st.status,
     status_text |-> st.status_text,
     carrier_code |-> carrier,
     last_update |-> lastUpdate,
     estimated_delivery |-> eta,
     location |-> IF latest = Nothing THEN None ELSE TheOne(latest).location,
     latitude |-> IF latest = Nothing THEN None ELSE TheOne(latest).latitude,
     longitude |-> IF latest = Nothing THEN None ELSE TheOne(latest).longitude,
     events |-> events,
     custom_name |-> None]

NormRaised(err) == [raised |-> TRUE, err |-> err, pkg |-> Nothing]

\* Variant: an empty tracking number is accepted.
MissingTrackingNumberOnlyAbsent(tn) == tn = NoStr

\* "not tracking_number": the key is absent or null (NoStr) or "".
MissingTrackingNumber(tn) == tn = NoStr \/ tn = <<"">>

\* to_package_data on the tracking object t, statement by statement; each
\* LET below is evaluated only when the statements before it did not raise.
ToPackageData(t) ==
    LET eventsTruthy  == \/ t.events.shape = "str"
                         \/ t.events.shape = "list" /\ t.events.list # <<>>
        fromEvent     == IF eventsTruthy THEN t.events.list[1].courierCode ELSE None
        carrier       == IF t.courierCode.kind = "str"
                         THEN t.courierCode.codes ELSE fromEvent
        parsed        == ParseEvents(IF t.events.shape = "list"
                                     THEN t.events.list ELSE <<>>)
        latest        == IF parsed.events = <<>> THEN Nothing
                         ELSE Some(parsed.events[Len(parsed.events)])
        timestamps    == IF t.statistics.shape = "dict"
                         THEN t.statistics.timestamps
                         ELSE TimestampsField("absent", NoDate, NoDate)
        lastUpdate    == IF latest # Nothing THEN Some(TheOne(latest).timestamp)
                         ELSE ParseDatetime(
                                  Or(timestamps.deliveredDatetime,
                                     Or(NoDate, Or(NoDate, timestamps.infoReceivedDatetime))))
        delivery      == IF t.shipment.shape = "dict"
                         THEN t.shipment.delivery
                         ELSE DeliveryField("absent", NoDate)
    IN
    IF MissingTrackingNumber(t.trackingNumber) THEN NormRaised("ValueError")
    ELSE IF t.shipment.shape = "null" THEN NormRaised("AttributeError")
    ELSE IF t.events.shape = "str" THEN NormRaised("AttributeError")
    ELSE IF t.courierCode.kind = "list" /\ t.courierCode.codes # <<>>
    THEN NormRaised("NameError")
    ELSE IF parsed.raised THEN NormRaised(parsed.err)
    ELSE IF latest = Nothing /\ timestamps.shape = "null"
    THEN NormRaised("AttributeError")
    ELSE IF delivery.shape = "null" THEN NormRaised("AttributeError")
    ELSE [raised |-> FALSE, err |-> "",
          pkg |-> Some(NormalizedPackageData(
                      t.trackingNumber[1],
                      MapStatusMilestone(t.shipment.statusMilestone,
                                         t.shipment.statusCode),
                      carrier, lastUpdate,
                      ParseDatetime(delivery.estimatedDeliveryDate),
                      latest, parsed.events))]

\* A tracking object with the tracking number tn and nothing else of note.
TrackingObject(tn, shipment) ==
    [trackingNumber |-> tn,
     courierCode |-> CourierField("absent", <<>>),
     shipment |-> shipment,
     events |-> EventsField("absent", <<>>),
     statistics |-> StatisticsField("absent",
                        TimestampsField("absent", NoDate, NoDate))]

PlainShipment ==
    ShipmentField("dict", <<"in", "transit">>, NoStr, DeliveryField("absent", NoDate))

\* data["trackings"]: absent, null, a dict, or a list of tracking objects.
TrackingsField(shape, list) == [shape |-> shape, list |-> list]

\* data["tracking"]: absent, null or a tracking object.
TrackingField(shape, obj) == [shape |-> shape, obj |-> obj]

\* An object that can hold the keys "trackings" and "tracking" and, in its
\* own keys tracker, shipment, events and statistics, a tracking object
\* (bare).
Body(trackings, tracking, bare) ==
    [trackings |-> trackings, tracking |-> tracking, bare |-> bare]

EmptyBody ==
    Body(TrackingsField("absent", <<>>),
         TrackingField("absent", TrackingObject(NoStr, PlainShipment)),
         TrackingObject(NoStr, PlainShipment))

\* A response: its "data" key (absent or falsy, or an object) and its own
\* keys.
Response(shape, data, top) == [data |-> [shape |-> shape, body |-> data], top |-> top]

\* Variant: the "tracking" key is looked at first.
SelectTrackingPrefersTracking(data) ==
    IF data.tracking.shape = "dict" THEN Some(data.tracking.obj)
    ELSE IF data.tracking.shape = "null" THEN Nothing
    ELSE IF data.trackings.shape = "list" /\ data.trackings.list # <<>>
    THEN Some(data.trackings.list[1])
    ELSE Some(data.bare)

\* The tracking object to_package_data works on; Nothing is Python's None,
\* the value of a "tracking" key that is null.
SelectTracking(data) ==
    IF data.trackings.shape = "list" /\ data.trackings.list # <<>>
    THEN Some(data.trackings.list[1])
    ELSE IF data.tracking.shape = "dict" THEN Some(data.tracking.obj)
    ELSE IF data.tracking.shape = "null" THEN Nothing
    ELSE Some(data.bare)

\* to_package_data on a response: "data = tracker_data.get("data", {}) or
\* tracker_data", the choice of the tracking object, and the rest.
ToPackageDataOfResponse(r) ==
    LET data     == IF r.data.shape = "dict" THEN r.data.body ELSE r.top
        tracking == SelectTracking(data)
    IN IF tracking = Nothing THEN NormRaised("AttributeError")
       ELSE ToPackageData(TheOne(tracking))

\* {"data": {"trackings": [tracking]}}
FetchEnvelope(tracking) ==
    Response("dict",
             Body(TrackingsField("list", <<tracking>>),
                  TrackingField("absent", TrackingObject(NoStr, PlainShipment)),
                  TrackingObject(NoStr, PlainShipment)),
             EmptyBody)

\* Variant: the last element of the array is normalized.
ProcessWebhookLastElement(trackings) ==
    IF trackings.shape \in {"absent", "null"} \/ trackings.list = <<>>
    THEN [raised |-> FALSE, err |-> "", pkg |-> Nothing]
    ELSE IF trackings.shape = "dict"
    THEN [raised |-> FALSE, err |-> "", pkg |-> Nothing]
    ELSE [raised |-> FALSE, err |-> "",
          pkg |-> ToPackageDataOfResponse(
                      FetchEnvelope(trackings.list[Len(trackings.list)])).pkg]

\* Ship24Adapter.process_webhook on a payload whose "trackings" key is
\* trackings: None for a falsy value, element 0 in the fetch envelope
\* otherwise, and None for whatever raises (trackings[0] of a dict, the
\* normalization).
ProcessWebhook(trackings) ==
    IF trackings.shape \in {"absent", "null"} \/ trackings.list = <<>>
    THEN [raised |-> FALSE, err |-> "", pkg |-> Nothing]
    ELSE IF trackings.shape = "dict"
    THEN [raised |-> FALSE, err |-> "", pkg |-> Nothing]
    ELSE [raised |-> FALSE, err |-> "",
          pkg |-> ToPackageDataOfResponse(FetchEnvelope(trackings.list[1])).pkg]

\* What a provider call whose response normalizes to r ends with, seen from
\* the backend: the response arrived, and to_package_data raised or not.
ResponseOutcome(r) == IF r.raised THEN "no_number" ELSE "ok"

----------------------------------------------------------------------------
(* Backend: ship24/adapter.py, class Ship24Backend.  `o` is what the        *)
(* client's request for this call ends with.                                *)

\* Ship24Client._request raises once its retries are over.
ClientRaises(o) == o \in {"conn_timeout", "http_4xx"}

\* to_package_data raises ValueError when tracker.trackingNumber is missing.
ToPackageDataRaises(o) == o = "no_number"

\* Ship24Backend.create_tracker: no try/except, every error propagates.
BackendCreateTracker(tn, o) ==
    IF ClientRaises(o) \/ ToPackageDataRaises(o)
    THEN [raised |-> TRUE, err |-> o, pkg |-> Nothing]
    ELSE [raised |-> FALSE, err |-> "", pkg |-> Some(NewPackageData(tn))]

\* Variant: get_tracker lets the error through.
BackendGetTrackerPropagates(tn, o) ==
    IF ClientRaises(o) \/ ToPackageDataRaises(o)
    THEN [raised |-> TRUE, err |-> o, pkg |-> Nothing]
    ELSE [raised |-> FALSE, err |-> "", pkg |-> Some(NewPackageData(tn))]

\* Ship24Backend.get_tracker: "except Exception: return None".
BackendGetTracker(tn, o) ==
    IF ClientRaises(o) \/ ToPackageDataRaises(o)
    THEN [raised |-> FALSE, err |-> "", pkg |-> Nothing]
    ELSE [raised |-> FALSE, err |-> "", pkg |-> Some(NewPackageData(tn))]

\* A webhook payload is its "trackings" array, each element given by its
\* tracker.trackingNumber ("" when the element has none).
Payloads == {<<>>} \cup {<<t>> : t \in Ids \cup {""}}

\* The tracking number a payload names: trackings[0].tracker.trackingNumber.
PayloadTrackingNumber(payload) == IF Len(payload) = 0 THEN "" ELSE payload[1]

\* Ship24Adapter.process_webhook (a coroutine function): element 0 only,
\* every error caught and turned into None.
AdapterProcessWebhook(payload) ==
    IF Len(payload) = 0 THEN Nothing
    ELSE IF payload[1] = "" THEN Nothing
    ELSE Some(NewPackageData(payload[1]))

\* Variant: the adapter's coroutine is awaited.
BackendProcessWebhookAwaited(payload) ==
    [awaited |-> TRUE, pkg |-> AdapterProcessWebhook(payload)]

\* Ship24Backend.process_webhook returns the adapter's coroutine without
\* awaiting it: the api layer receives a coroutine object, not a PackageData.
BackendProcessWebhook(payload) ==
    [awaited |-> FALSE, pkg |-> AdapterProcessWebhook(payload)]

----------------------------------------------------------------------------
(* Application layer: app/api.py, class ParcelTrackingAPI.  `pk` is         *)
(* self._packages.  Each operator gives what the call raises or returns and *)
(* the cache it leaves.                                                     *)

\* Variant: the cache entry is written before the backend call.
ApiAddTrackingEarlyStore(pk, tn, name, o) ==
    LET r == BackendCreateTracker(tn, o) IN
    IF r.raised
    THEN [raised |-> TRUE, err |-> r.err, ret |-> Nothing,
          packages |-> DictSet(pk, tn, NewPackageData(tn))]
    ELSE LET p0 == TheOne(r.pkg)
             p  == IF Truthy(name) THEN [p0 EXCEPT !.custom_name = name] ELSE p0
         IN [raised |-> FALSE, err |-> "", ret |-> Some(p),
             packages |-> DictSet(pk, tn, p)]

\* Variant: the custom name given is not applied.
ApiAddTrackingNoName(pk, tn, name, o) ==
    LET r == BackendCreateTracker(tn, o) IN
    IF r.raised
    THEN [raised |-> TRUE, err |-> r.err, ret |-> Nothing, packages |-> pk]
    ELSE [raised |-> FALSE, err |-> "", ret |-> r.pkg,
          packages |-> DictSet(pk, tn, TheOne(r.pkg))]

ApiAddTracking(pk, tn, name, o) ==
    LET r == BackendCreateTracker(tn, o) IN
    IF r.raised
    THEN [raised |-> TRUE, err |-> r.err, ret |-> Nothing, packages |-> pk]
    ELSE LET p0 == TheOne(r.pkg)
             p  == IF Truthy(name) THEN [p0 EXCEPT !.custom_name = name] ELSE p0
         IN [raised |-> FALSE, err |-> "", ret |-> Some(p),
             packages |-> DictSet(pk, tn, p)]

\* Variant: the name is carried to the returned record, the cache gets the
\* fresh record.
ApiUpdatePackageCachesFresh(pk, tn, o) ==
    LET r == BackendGetTracker(tn, o) IN
    IF r.pkg = Nothing
    THEN [raised |-> FALSE, err |-> "", ret |-> Nothing, packages |-> pk]
    ELSE LET p0 == TheOne(r.pkg)
             p  == IF tn \in DOMAIN pk
                   THEN [p0 EXCEPT !.custom_name = pk[tn].custom_name]
                   ELSE p0
         IN [raised |-> FALSE, err |-> "", ret |-> Some(p),
             packages |-> DictSet(pk, tn, p0)]

\* Variant: the fresh record replaces the cached one as it is.
ApiUpdatePackageNoCarry(pk, tn, o) ==
    LET r == BackendGetTracker(tn, o) IN
    IF r.pkg = Nothing
    THEN [raised |-> FALSE, err |-> "", ret |-> Nothing, packages |-> pk]
    ELSE [raised |-> FALSE, err |-> "", ret |-> r.pkg,
          packages |-> DictSet(pk, tn, TheOne(r.pkg))]

ApiUpdatePackage(pk, tn, o) ==
    LET r == BackendGetTracker(tn, o) IN
    IF r.raised
    THEN [raised |-> TRUE, err |-> r.err, ret |-> Nothing, packages |-> pk]
    ELSE IF r.pkg = Nothing
    THEN [raised |-> FALSE, err |-> "", ret |-> Nothing, packages |-> pk]
    ELSE LET p0 == TheOne(r.pkg)
             p  == IF tn \in DOMAIN pk
                   THEN [p0 EXCEPT !.custom_name = pk[tn].custom_name]
                   ELSE p0
         IN [raised |-> FALSE, err |-> "", ret |-> Some(p),
             packages |-> DictSet(pk, tn, p)]

\* remove_tracking: returns whether the key was cached, deletes it.
ApiRemoveTracking(pk, tn) ==
    [ret |-> tn \in DOMAIN pk, packages |-> DictDel(pk, tn)]

\* Variant: the tracker is deleted at the provider too.
ApiRemoveTrackingDeletesUpstream(tn) == {tn}

\* The tracking numbers remove_tracking asks the provider to delete: none
\* ("Don't delete from Ship24, just remove from our tracking").
ApiRemoveTrackingDeletes(tn) == {}

\* Variant: the name is reported as set without being stored.
ApiSetCustomNameNotStored(pk, tn, name) ==
    IF tn \in DOMAIN pk
    THEN [ret |-> TRUE, packages |-> pk]
    ELSE [ret |-> FALSE, packages |-> pk]

ApiSetCustomName(pk, tn, name) ==
    IF tn \in DOMAIN pk
    THEN [ret |-> TRUE, packages |-> [pk EXCEPT ![tn].custom_name = name]]
    ELSE [ret |-> FALSE, packages |-> pk]

\* process_webhook_payload: "if package_data:" is true of a coroutine object,
\* and reading its tracking_number raises AttributeError before any write.
ApiProcessWebhookPayload(pk, payload) ==
    LET c == BackendProcessWebhook(payload) IN
    IF ~c.awaited
    THEN [raised |-> TRUE, ret |-> Nothing, packages |-> pk]
    ELSE IF c.pkg = Nothing
    THEN [raised |-> FALSE, ret |-> Nothing, packages |-> pk]
    ELSE LET p0 == TheOne(c.pkg)
             tn == p0.tracking_number
             p  == IF tn \in DOMAIN pk
                   THEN [p0 EXCEPT !.custom_name = pk[tn].custom_name]
                   ELSE p0
         IN [raised |-> FALSE, ret |-> Some(p), packages |-> DictSet(pk, tn, p)]

----------------------------------------------------------------------------
(* Coordinator: coordinator.py, class Ship24DataUpdateCoordinator.          *)

\* _is_retryable_error: a keyword of the list occurs in str(err).  Of the
\* provider errors modelled, the connection timeout's text has one.
IsRetryableError(err) == err = "conn_timeout"

\* __init__: set(saved_tracking_numbers), the saved value being a list.
LoadTrackingNumbers(saved) == SetOf(saved)

\* Variant: nothing is written to the config entry.
SaveTrackingNumbersSkipped(tns) == <<>>

\* _save_tracking_numbers: the entry's list becomes list(self._tracking_numbers).
SaveTrackingNumbers(tns) == ListOf(tns)

\* Variant: the sweep raises whenever it has no record to return.
SweepRaisesWithoutData(npk, ec, rc) == npk = 0

\* The sweep's raise condition: "Only raise UpdateFailed if we have
\* non-retryable errors and no successful updates".
SweepRaises(npk, ec, rc) == npk = 0 /\ rc < ec

\* Variant: a sweep without errors leaves the earlier error in place.
SweepFinishKeepsError(npk, ec, rc, le) ==
    IF ec = 0
    THEN [pc |-> "returned", last_message |-> <<"Successfully updated", npk>>,
          last_error |-> le]
    ELSE [pc |-> IF SweepRaises(npk, ec, rc) THEN "raised" ELSE "returned",
          last_message |-> <<"Updated", npk, ec>>, last_error |-> le]

\* The end of _async_update_data, after the loop: npk = len(packages),
\* ec = error_count, rc = retryable_error_count, le = self._last_error.
SweepFinish(npk, ec, rc, le) ==
    IF ec = 0
    THEN [pc |-> IF SweepRaises(npk, ec, rc) THEN "raised" ELSE "returned",
          last_message |-> <<"Successfully updated", npk>>,
          last_error |-> IF SweepRaises(npk, ec, rc)
                         THEN <<"Failed to update packages", ec>> ELSE None]
    ELSE IF npk > 0
    THEN [pc |-> IF SweepRaises(npk, ec, rc) THEN "raised" ELSE "returned",
          last_message |-> <<"Updated", npk, ec>>,
          last_error |-> IF SweepRaises(npk, ec, rc)
                         THEN <<"Failed to update packages", ec>> ELSE le]
    ELSE IF rc = ec
    THEN [pc |-> "returned",
          last_message |-> <<"Temporary network issues", ec>>,
          last_error |-> le]
    ELSE [pc |-> IF SweepRaises(npk, ec, rc) THEN "raised" ELSE "returned",
          last_message |-> <<"Failed to update packages", ec>>,
          last_error |-> IF SweepRaises(npk, ec, rc)
                         THEN <<"Failed to update packages", ec>> ELSE le]

\* What a provider request's end is for the item it was made for: a success,
\* a transient failure or a permanent one.
FailureClass(o) ==
    IF o = "ok" THEN "ok" ELSE IF o = "conn_timeout" THEN "retryable" ELSE "fatal"

\* Variant: an item whose fetch gave no record is put back on the list.
SweepItemRequeues(sw, r, o) ==
    [sw EXCEPT
        !.pkgs = IF ~r.raised /\ r.ret # Nothing THEN @ \cup {sw.cur} ELSE @,
        !.todo = IF r.raised \/ r.ret = Nothing THEN @ \cup {sw.cur} ELSE @,
        !.error_count = IF r.raised THEN @ + 1 ELSE @,
        !.retryable_error_count =
            IF r.raised /\ IsRetryableError(r.err) THEN @ + 1 ELSE @,
        !.fetched = Append(@, [tn |-> sw.cur, end |-> FailureClass(o)])]

\* One iteration of the sweep's loop, from the return of the provider request
\* to the end of the try/except: sw is the sweep, r what update_package did.
\* fetched lists, in the loop's order, the items done and how the provider
\* request of each ended.
SweepItem(sw, r, o) ==
    [sw EXCEPT
        !.pkgs = IF ~r.raised /\ r.ret # Nothing THEN @ \cup {sw.cur} ELSE @,
        !.error_count = IF r.raised THEN @ + 1 ELSE @,
        !.retryable_error_count =
            IF r.raised /\ IsRetryableError(r.err) THEN @ + 1 ELSE @,
        !.fetched = Append(@, [tn |-> sw.cur, end |-> FailureClass(o)])]

\* Variant: the fetches of all remaining items are started together.
SweepInFlightAll(sw) == IF sw.pc = "fetch" THEN {sw.cur} \cup sw.todo ELSE {}

\* The tracking numbers whose update_package call the sweep is awaiting: the
\* loop awaits one call before it goes to the next item.
SweepInFlight(sw) == IF sw.pc = "fetch" THEN {sw.cur} ELSE {}

IdleSweep ==
    [pc |-> "idle", todo |-> {}, cur |-> "", pkgs |-> {},
     error_count |-> 0, retryable_error_count |-> 0,
     fetched |-> <<>>]

IdleCall == [pc |-> "idle", tn |-> "", name |-> None]

NoResult ==
    [op |-> "none", tn |-> "", ok |-> FALSE, pkg |-> Nothing, refreshes |-> 0,
     status |-> 0]

Returned(op, tn, ok, pkg, refreshes, status) ==
    [op |-> op, tn |-> tn, ok |-> ok, pkg |-> pkg, refreshes |-> refreshes,
     status |-> status]

----------------------------------------------------------------------------
(* Initial state: __init__ of the coordinator and of the api.               *)

Init ==
    /\ \E S \in SUBSET Ids : persisted = ListOf(S)
    /\ tracking_numbers = SetOf(persisted)
    /\ packages = EmptyDict
    /\ last_error = None
    /\ last_message = None
    /\ delete_calls = {}
    /\ sweep = IdleSweep
    /\ adding = IdleCall
    /\ updating = IdleCall
    /\ result = NoResult
    /\ ops = 0
    /\ upstream = NoTrackers
    /\ request = IdleRequest
    /\ creating = IdleCreate
    /\ calls = 0
    /\ session = NoSession(FALSE)
    /\ norm = IdleNorm

----------------------------------------------------------------------------
(* The sweep, _async_update_data.  It suspends in each provider request.    *)

\* A host-facing operation begins.
Begin == ops < MaxOps /\ ops' = ops + 1

\* From the call to the first provider request (or to the end, when the
\* watch list is empty).  The loop runs over list(self._tracking_numbers),
\* a copy taken here, in the set's iteration order.
SweepStart ==
    /\ sweep.pc # "fetch"
    /\ Begin
    /\ IF tracking_numbers = {}
       THEN LET f == SweepFinish(0, 0, 0, last_error) IN
            /\ sweep' = [IdleSweep EXCEPT !.pc = f.pc]
            /\ last_message' = f.last_message
            /\ last_error' = f.last_error
       ELSE /\ \E first \in tracking_numbers :
                sweep' = [IdleSweep EXCEPT !.pc = "fetch",
                                           !.todo = tracking_numbers \ {first},
                                           !.cur = first]
            /\ UNCHANGED <<last_message, last_error>>
    /\ UNCHANGED <<tracking_numbers, persisted, packages, delete_calls, adding,
                   updating, result>>
    /\ UNCHANGED <<clientVars, norm>>

\* The provider request of the current item ends with o: the rest of
\* update_package, the rest of the iteration, and then either the next
\* item's request or the end of the sweep.
SweepFetchReturn(o) ==
    /\ sweep.pc = "fetch"
    /\ LET r   == ApiUpdatePackage(packages, sweep.cur, o)
           sw  == SweepItem(sweep, r, o)
           le  == IF r.raised THEN <<"Error updating", sweep.cur>> ELSE last_error
       IN
       /\ packages' = r.packages
       /\ result' = Returned("update_package", sweep.cur, ~r.raised, r.ret, 0, 0)
       /\ IF sweep.todo # {}
          THEN /\ \E next \in sweep.todo :
                     sweep' = [sw EXCEPT !.todo = @ \ {next}, !.cur = next]
               /\ last_error' = le
               /\ UNCHANGED last_message
          ELSE LET f == SweepFinish(Cardinality(sw.pkgs), sw.error_count,
                                    sw.retryable_error_count, le) IN
               /\ sweep' = [sw EXCEPT !.pc = f.pc, !.cur = ""]
               /\ last_message' = f.last_message
               /\ last_error' = f.last_error
    /\ UNCHANGED <<tracking_numbers, persisted, delete_calls, adding, updating,
                   ops>>
    /\ UNCHANGED <<clientVars, norm>>

----------------------------------------------------------------------------
(* async_add_tracking -> api.add_tracking -> backend.create_tracker ->      *)
(* client.create_tracker, which suspends twice: in find_tracker's list      *)
(* request and in the results or track request.                             *)

AddStart(tn, name) ==
    /\ adding.pc = "idle"
    /\ Begin
    /\ adding' = [pc |-> "find", tn |-> tn, name |-> name]
    /\ UNCHANGED <<tracking_numbers, persisted, packages, last_error,
                   last_message, delete_calls, sweep, updating, result>>
    /\ UNCHANGED <<clientVars, norm>>

\* client.create_tracker after find_tracker: found says whether the list of
\* active trackers it got holds the tracking number (never, when the list
\* request failed).  An existing tracker is fetched, a missing one created.
ClientCreateTrackerRequest(found) == IF found THEN "results" ELSE "track"

AddFindReturn(found) ==
    /\ adding.pc = "find"
    /\ adding' = [adding EXCEPT !.pc = ClientCreateTrackerRequest(found)]
    /\ UNCHANGED <<tracking_numbers, persisted, packages, last_error,
                   last_message, delete_calls, sweep, updating, result, ops>>
    /\ UNCHANGED <<clientVars, norm>>

\* The results or track request ends with o: the rest of api.add_tracking
\* and of async_add_tracking.
AddReturn(o) ==
    /\ adding.pc \in {"results", "track"}
    /\ LET tn == adding.tn
           r  == ApiAddTracking(packages, tn, adding.name, o)
       IN
       /\ packages' = r.packages
       /\ IF ~r.raised
          THEN /\ tracking_numbers' = tracking_numbers \cup {tn}
               /\ persisted' = SaveTrackingNumbers(tracking_numbers')
               /\ last_message' = <<"Added tracking", tn>>
               /\ last_error' = None
               /\ result' = Returned("async_add_tracking", tn, TRUE, r.ret, 1, 0)
          ELSE /\ last_error' = <<"Error adding tracking", tn>>
               /\ result' = Returned("async_add_tracking", tn, FALSE, Nothing, 0, 0)
               /\ UNCHANGED <<tracking_numbers, persisted, last_message>>
    /\ adding' = IdleCall
    /\ UNCHANGED <<delete_calls, sweep, updating, ops>>
    /\ UNCHANGED <<clientVars, norm>>

----------------------------------------------------------------------------
(* async_remove_tracking: no provider request, hence one step.              *)

Remove(tn) ==
    /\ Begin
    /\ IF tn \notin tracking_numbers
       THEN /\ result' = Returned("async_remove_tracking", tn, FALSE, Nothing, 0, 0)
            /\ UNCHANGED <<tracking_numbers, persisted, packages, last_error,
                           last_message, delete_calls>>
       ELSE /\ packages' = ApiRemoveTracking(packages, tn).packages
            /\ delete_calls' = delete_calls \cup ApiRemoveTrackingDeletes(tn)
            /\ tracking_numbers' = tracking_numbers \ {tn}
            /\ persisted' = SaveTrackingNumbers(tracking_numbers')
            /\ last_message' = <<"Removed tracking", tn>>
            /\ last_error' = None
            /\ result' = Returned("async_remove_tracking", tn, TRUE, Nothing, 0, 0)
    /\ UNCHANGED <<sweep, adding, updating>>
    /\ UNCHANGED <<clientVars, norm>>

----------------------------------------------------------------------------
(* async_update_package (manual update of one package).                     *)

UpdateStart(tn) ==
    /\ updating.pc = "idle"
    /\ Begin
    /\ updating' = [pc |-> "fetch", tn |-> tn, name |-> None]
    /\ UNCHANGED <<tracking_numbers, persisted, packages, last_error,
                   last_message, delete_calls, sweep, adding, result>>
    /\ UNCHANGED <<clientVars, norm>>

UpdateReturn(o) ==
    /\ updating.pc = "fetch"
    /\ LET r == ApiUpdatePackage(packages, updating.tn, o) IN
       /\ packages' = r.packages
       /\ result' = Returned("async_update_package", updating.tn, ~r.raised,
                             r.ret, IF r.raised THEN 0 ELSE 1, 0)
    /\ updating' = IdleCall
    /\ UNCHANGED <<tracking_numbers, persisted, last_error, last_message,
                   delete_calls, sweep, adding, ops>>
    /\ UNCHANGED <<clientVars, norm>>

----------------------------------------------------------------------------
(* api.set_custom_name.                                                     *)

SetCustomName(tn, name) ==
    /\ Begin
    /\ LET r == ApiSetCustomName(packages, tn, name) IN
       /\ packages' = r.packages
       /\ result' = Returned("set_custom_name", tn, r.ret, Nothing, 0, 0)
    /\ UNCHANGED <<tracking_numbers, persisted, last_error, last_message,
                   delete_calls, sweep, adding, updating>>
    /\ UNCHANGED <<clientVars, norm>>

----------------------------------------------------------------------------
(* async_handle_webhook (__init__.py).  known: a config entry stores the    *)
(* inbound webhook id; parsed: request.json() succeeds.  package is the     *)
(* record process_webhook_payload handed to the handler, refreshes the      *)
(* number of async_request_refresh calls (full sweeps) the handler makes.   *)
(* The result keeps the tracking number the parsed body names.              *)

\* Variant: the body is parsed before the registration is looked up.
WebhookResponseParseFirst(known, parsed, payload, pk, tns) ==
    IF ~parsed
    THEN [status |-> 400, refreshes |-> 0, package |-> Nothing, packages |-> pk]
    ELSE IF ~known
    THEN [status |-> 404, refreshes |-> 0, package |-> Nothing, packages |-> pk]
    ELSE LET r == ApiProcessWebhookPayload(pk, payload) IN
         IF r.raised
         THEN [status |-> 500, refreshes |-> 0, package |-> Nothing,
               packages |-> r.packages]
         ELSE IF r.ret = Nothing
         THEN [status |-> 200, refreshes |-> 0, package |-> r.ret,
               packages |-> r.packages]
         ELSE IF TheOne(r.ret).tracking_number \notin tns
         THEN [status |-> 200, refreshes |-> 0, package |-> r.ret,
               packages |-> r.packages]
         ELSE [status |-> 200, refreshes |-> 1, package |-> r.ret,
               packages |-> r.packages]

WebhookResponse(known, parsed, payload, pk, tns) ==
    IF ~known
    THEN [status |-> 404, refreshes |-> 0, package |-> Nothing, packages |-> pk]
    ELSE IF ~parsed
    THEN [status |-> 400, refreshes |-> 0, package |-> Nothing, packages |-> pk]
    ELSE LET r == ApiProcessWebhookPayload(pk, payload) IN
         IF r.raised
         THEN [status |-> 500, refreshes |-> 0, package |-> Nothing,
               packages |-> r.packages]
         ELSE IF r.ret = Nothing
         THEN [status |-> 200, refreshes |-> 0, package |-> r.ret,
               packages |-> r.packages]
         ELSE IF TheOne(r.ret).tracking_number \notin tns
         THEN [status |-> 200, refreshes |-> 0, package |-> r.ret,
               packages |-> r.packages]
         ELSE [status |-> 200, refreshes |-> 1, package |-> r.ret,
               packages |-> r.packages]

Webhook(known, parsed, payload) ==
    /\ Begin
    /\ LET w == WebhookResponse(known, parsed, payload, packages,
                                tracking_numbers) IN
       /\ packages' = w.packages
       /\ result' = Returned("webhook",
                             IF known /\ parsed
                             THEN PayloadTrackingNumber(payload) ELSE "",
                             w.status = 200, w.package, w.refreshes, w.status)
    /\ UNCHANGED <<tracking_numbers, persisted, last_error, last_message,
                   delete_calls, sweep, adding, updating>>
    /\ UNCHANGED <<clientVars, norm>>

----------------------------------------------------------------------------
(* The integration is set up again (async_setup_entry after a restart or a  *)
(* reload): a new api with an empty cache and a new coordinator that loads  *)
(* the saved watch list.  Calls in flight end with the old objects.         *)

Restart ==
    /\ Begin
    /\ tracking_numbers' = LoadTrackingNumbers(persisted)
    /\ packages' = EmptyDict
    /\ last_error' = None
    /\ last_message' = None
    /\ sweep' = IdleSweep
    /\ adding' = IdleCall
    /\ updating' = IdleCall
    /\ result' = Returned("restart", "", TRUE, Nothing, 0, 0)
    /\ UNCHANGED <<persisted, delete_calls>>
    /\ UNCHANGED <<clientVars, norm>>

----------------------------------------------------------------------------

Next ==
    \/ SweepStart
    \/ \E o \in Outcomes : SweepFetchReturn(o)
    \/ \E tn \in Ids, name \in Names \cup {None} : AddStart(tn, name)
    \/ \E found \in BOOLEAN : AddFindReturn(found)
    \/ \E o \in Outcomes : AddReturn(o)
    \/ \E tn \in Ids : Remove(tn)
    \/ \E tn \in Ids : UpdateStart(tn)
    \/ \E o \in Outcomes : UpdateReturn(o)
    \/ \E tn \in Ids, name \in Names \cup {None} : SetCustomName(tn, name)
    \/ \E known \in BOOLEAN, parsed \in BOOLEAN, payload \in Payloads :
          Webhook(known, parsed, payload)
    \/ Restart

Spec == Init /\ [][Next]_vars

\* The sweeps of a coordinator whose saved watch list holds three numbers.
InitThree ==
    /\ persisted = ListOf(ThreeIds)
    /\ tracking_numbers = SetOf(persisted)
    /\ packages = EmptyDict
    /\ last_error = None
    /\ last_message = None
    /\ delete_calls = {}
    /\ sweep = IdleSweep
    /\ adding = IdleCall
    /\ updating = IdleCall
    /\ result = NoResult
    /\ ops = 0
    /\ upstream = NoTrackers
    /\ request = IdleRequest
    /\ creating = IdleCreate
    /\ calls = 0
    /\ session = NoSession(FALSE)
    /\ norm = IdleNorm

NextThree ==
    \/ SweepStart
    \/ \E o \in Outcomes : SweepFetchReturn(o)

SpecThree == InitThree /\ [][NextThree]_vars

\* The sweep next to adds and removes, every provider request of a sweep
\* ending: the awaited update_package call returns or raises.
NextSweepLive ==
    \/ SweepStart
    \/ \E o \in Outcomes : SweepFetchReturn(o)
    \/ \E tn \in Ids, name \in Names \cup {None} : AddStart(tn, name)
    \/ \E found \in BOOLEAN : AddFindReturn(found)
    \/ \E o \in Outcomes : AddReturn(o)
    \/ \E tn \in Ids : Remove(tn)

SpecSweepLive ==
    /\ Init
    /\ [][NextSweepLive]_vars
    /\ WF_vars(\E o \in Outcomes : SweepFetchReturn(o))

----------------------------------------------------------------------------
(* Ship24Client.create_tracker and the requests it makes.  It suspends in   *)
(* every attempt of a request and in every backoff sleep.                   *)

\* create_tracker(tn) up to the first attempt of find_tracker's list request
\* (creating.ret stays what the previous call ended with).
CreateTrackerStart(tn) ==
    /\ creating.pc = "idle"
    /\ calls < MaxCalls
    /\ calls' = calls + 1
    /\ creating' = [creating EXCEPT !.pc = "find", !.tn = tn]
    /\ request' = RequestStart(request, "list")
    /\ session' = SessionOnRequestStart(session)
    /\ UNCHANGED <<upstream, coordVars, norm>>

\* An attempt of the running request ends with o.  A list response carries
\* the provider's active trackers; a track response means the provider now
\* has an active tracker for the tracking number.
RequestAttempt(o) ==
    /\ request.pc = "attempt"
    /\ request' = [RequestAfterAttempt(request, o) EXCEPT
                     !.listed = IF o = "ok" /\ request.endpoint = "list"
                                THEN ActiveTrackers(upstream) ELSE {}]
    /\ upstream' = IF o = "ok" /\ request.endpoint = "track"
                   THEN [upstream EXCEPT ![creating.tn] = "active"]
                   ELSE upstream
    /\ session' = SessionAfterAttempt(session, request')
    /\ UNCHANGED <<creating, calls, coordVars, norm>>

\* asyncio.sleep(delay) is over: "continue" with the next attempt.
RequestWake ==
    /\ request.pc = "sleep"
    /\ request' = [request EXCEPT !.pc = "attempt", !.attempt = @ + 1]
    /\ UNCHANGED <<upstream, creating, calls, session, coordVars, norm>>

\* The list request is over: the rest of find_tracker, and create_tracker up
\* to the first attempt of its results or track request.
CreateTrackerFindReturn ==
    /\ creating.pc = "find"
    /\ request.pc \in {"returned", "raised"}
    /\ LET endpoint == ClientCreateTrackerRequest(FindTracker(request, creating.tn)) IN
       /\ creating' = [creating EXCEPT !.pc = endpoint]
       /\ request' = RequestStart(request, endpoint)
    /\ session' = SessionOnRequestStart(session)
    /\ UNCHANGED <<upstream, calls, coordVars, norm>>

\* The results or track request is over: create_tracker returns its response
\* or raises its error.
CreateTrackerReturn ==
    /\ creating.pc \in {"results", "track"}
    /\ request.pc \in {"returned", "raised"}
    /\ creating' = [creating EXCEPT !.pc = "idle", !.ret = request.pc]
    /\ UNCHANGED <<upstream, request, calls, session, coordVars, norm>>

\* The client alone, against a provider that holds any trackers.
InitClient ==
    /\ persisted = <<>>
    /\ tracking_numbers = SetOf(persisted)
    /\ packages = EmptyDict
    /\ last_error = None
    /\ last_message = None
    /\ delete_calls = {}
    /\ sweep = IdleSweep
    /\ adding = IdleCall
    /\ updating = IdleCall
    /\ result = NoResult
    /\ ops = 0
    /\ upstream \in [Ids -> TrackerStatus]
    /\ request = IdleRequest
    /\ creating = IdleCreate
    /\ calls = 0
    /\ \E supplied \in BOOLEAN : session = NoSession(supplied)
    /\ norm = IdleNorm

NextClient ==
    \/ \E tn \in Ids : CreateTrackerStart(tn)
    \/ \E o \in AttemptOutcomes : RequestAttempt(o)
    \/ RequestWake
    \/ CreateTrackerFindReturn
    \/ CreateTrackerReturn

SpecClient == InitClient /\ [][NextClient]_vars

(***************************************************************************)
(* The normalizer on its own: one call of one of its functions on an input *)
(* drawn from the payloads below.                                           *)
(***************************************************************************)
Milestones ==
    {NoStr, <<"info", "received">>, <<"in", "transit">>, <<"out", "for", "delivery">>,
     <<"delivered">>, <<"exception">>, <<"failed", "attempt">>,
     <<"available", "for", "pickup">>, <<"Delivered">>, <<"customs", "hold">>}

StatusCodes ==
    {NoStr, <<"delivery", "delivered">>, <<"DELIVERY", "DELIVERED">>,
     <<"delivery", "out", "for", "delivery">>, <<"exception", "damaged">>,
     <<"delivery", "failed", "attempt">>, <<"transit", "update">>,
     <<"delivered">>, <<"out", "for", "delivery">>}

EventLists == UNION {[1..n -> RawEvents] : n \in 0..MaxEvents}

NoStatistics == StatisticsField("absent", TimestampsField("absent", NoDate, NoDate))

\* Trackings that differ in their events only.
TrackingsByEvents ==
    {[trackingNumber |-> <<"a">>,
      courierCode |-> CourierField("absent", <<>>),
      shipment |-> ShipmentField("dict", <<"in", "transit">>, NoStr,
                                 DeliveryField("absent", NoDate)),
      events |-> EventsField("list", l),
      statistics |-> NoStatistics] : l \in EventLists}

\* Trackings whose other fields are absent, null or malformed.
TrackingsByFields ==
    [trackingNumber : {NoStr, <<"">>, <<"a">>},
     courierCode : {CourierField("absent", <<>>), CourierField("str", <<"dhl">>),
                    CourierField("list", <<>>), CourierField("list", <<"dhl">>)},
     shipment : {ShipmentField("absent", NoStr, NoStr, DeliveryField("absent", NoDate)),
                 ShipmentField("null", NoStr, NoStr, DeliveryField("absent", NoDate))}
                \cup {ShipmentField("dict", <<"delivered">>, NoStr, d) :
                         d \in {DeliveryField("absent", NoDate),
                                DeliveryField("null", NoDate),
                                DeliveryField("dict", [kind |-> "garbage", t |-> 0]),
                                DeliveryField("dict", [kind |-> "aware", t |-> 2])}},
     events : {EventsField("absent", <<>>), EventsField("null", <<>>),
               EventsField("str", <<>>), EventsField("list", <<>>)}
              \cup {EventsField("list", <<e>>) : e \in CourierEvents},
     statistics : {NoStatistics,
                   StatisticsField("null", TimestampsField("absent", NoDate, NoDate))}
                  \cup {StatisticsField("dict", ts) :
                           ts \in {TimestampsField("absent", NoDate, NoDate),
                                   TimestampsField("null", NoDate, NoDate),
                                   TimestampsField("dict", NoDate,
                                                   [kind |-> "naive", t |-> 1]),
                                   TimestampsField("dict", [kind |-> "aware", t |-> 2],
                                                   [kind |-> "naive", t |-> 1])}}]

\* Raw events that differ in their time and in the courier they name.
DatedCourierEvents ==
    [occurrenceDatetime : {[kind |-> "aware", t |-> t] : t \in Times},
     timestamp : {NoDate},
     location : {<<"X">>},
     courierCode : {None, <<"ups">>, <<"fedex">>}]

\* Trackings that differ in the couriers their tracker and their events name.
TrackingsByCouriers ==
    [trackingNumber : {<<"a">>},
     courierCode : {CourierField("absent", <<>>), CourierField("str", <<"dhl">>)},
     shipment : {ShipmentField("dict", <<"in", "transit">>, NoStr,
                               DeliveryField("absent", NoDate))},
     events : {EventsField("list", l) :
                  l \in UNION {[1..n -> DatedCourierEvents] : n \in 0..MaxEvents}},
     statistics : {NoStatistics}]

\* The tracking objects a response or a webhook payload is made of.
PlainTrackings == {TrackingObject(<<tn>>, PlainShipment) : tn \in {"a", "b", "c", "d"}}
NoNumberTracking == TrackingObject(NoStr, PlainShipment)
NullShipmentTracking ==
    TrackingObject(<<"a">>, ShipmentField("null", NoStr, NoStr,
                                          DeliveryField("absent", NoDate)))

Bodies ==
    {Body(trackings, tracking, bare) :
        trackings \in {TrackingsField("absent", <<>>), TrackingsField("null", <<>>),
                       TrackingsField("dict", <<>>), TrackingsField("list", <<>>),
                       TrackingsField("list", <<TrackingObject(<<"a">>, PlainShipment)>>),
                       TrackingsField("list", <<TrackingObject(<<"a">>, PlainShipment),
                                                TrackingObject(<<"b">>, PlainShipment)>>)},
        tracking \in {TrackingField("absent", NoNumberTracking),
                      TrackingField("null", NoNumberTracking),
                      TrackingField("dict", TrackingObject(<<"c">>, PlainShipment))},
        bare \in {NoNumberTracking, TrackingObject(<<"d">>, PlainShipment)}}

Responses ==
    {Response("absent", EmptyBody, top) : top \in Bodies}
    \cup {Response("dict", data, top) : data \in Bodies,
              top \in {EmptyBody,
                       Body(TrackingsField("list", <<TrackingObject(<<"b">>, PlainShipment)>>),
                            TrackingField("dict", TrackingObject(<<"c">>, PlainShipment)),
                            TrackingObject(<<"d">>, PlainShipment))}}

\* The "trackings" key of a webhook payload.
WebhookTrackings ==
    {TrackingsField("absent", <<>>), TrackingsField("null", <<>>),
     TrackingsField("dict", <<NoNumberTracking>>)}
    \cup {TrackingsField("list", l) :
              l \in UNION {[1..n -> PlainTrackings \cup {NoNumberTracking,
                                                         NullShipmentTracking}] :
                              n \in 0..2}}

NormInput(fn, arg) == [pc |-> "input", fn |-> fn, arg |-> arg, out |-> <<>>]

InitNorm ==
    /\ persisted = <<>>
    /\ tracking_numbers = SetOf(persisted)
    /\ packages = EmptyDict
    /\ last_error = None
    /\ last_message = None
    /\ delete_calls = {}
    /\ sweep = IdleSweep
    /\ adding = IdleCall
    /\ updating = IdleCall
    /\ result = NoResult
    /\ ops = 0
    /\ upstream = NoTrackers
    /\ request = IdleRequest
    /\ creating = IdleCreate
    /\ calls = 0
    /\ session = NoSession(FALSE)
    /\ \/ \E m \in Milestones, c \in StatusCodes :
             norm = NormInput("_map_status_milestone", [m |-> m, c |-> c])
       \/ \E l \in EventLists : norm = NormInput("_parse_events", l)
       \/ \E t \in TrackingsByEvents \cup TrackingsByFields \cup TrackingsByCouriers :
             norm = NormInput("to_package_data", t)
       \/ \E r \in Responses : norm = NormInput("to_package_data(response)", r)
       \/ \E w \in WebhookTrackings : norm = NormInput("process_webhook", w)

Called(fn) == norm.pc = "input" /\ norm.fn = fn

MapStatusMilestoneCall ==
    /\ Called("_map_status_milestone")
    /\ norm' = [norm EXCEPT !.pc = "done",
                            !.out = MapStatusMilestone(norm.arg.m, norm.arg.c)]
    /\ UNCHANGED <<coordVars, clientVars>>

ParseEventsCall ==
    /\ Called("_parse_events")
    /\ norm' = [norm EXCEPT !.pc = "done", !.out = ParseEvents(norm.arg)]
    /\ UNCHANGED <<coordVars, clientVars>>

ToPackageDataCall ==
    /\ Called("to_package_data")
    /\ norm' = [norm EXCEPT !.pc = "done", !.out = ToPackageData(norm.arg)]
    /\ UNCHANGED <<coordVars, clientVars>>

ToPackageDataOfResponseCall ==
    /\ Called("to_package_data(response)")
    /\ norm' = [norm EXCEPT !.pc = "done", !.out = ToPackageDataOfResponse(norm.arg)]
    /\ UNCHANGED <<coordVars, clientVars>>

ProcessWebhookCall ==
    /\ Called("process_webhook")
    /\ norm' = [norm EXCEPT !.pc = "done", !.out = ProcessWebhook(norm.arg)]
    /\ UNCHANGED <<coordVars, clientVars>>

NextNorm ==
    \/ MapStatusMilestoneCall
    \/ ParseEventsCall
    \/ ToPackageDataCall
    \/ ToPackageDataOfResponseCall
    \/ ProcessWebhookCall

SpecNorm == InitNorm /\ [][NextNorm]_vars

----------------------------------------------------------------------------
(* Steps and states the properties below speak of.                          *)

\* The sweep has ended (returned its dict or raised UpdateFailed).
SweepDone == sweep.pc \in {"returned", "raised"}

\* This step ends a sweep.
SweepEnds ==
    /\ SweepStart \/ \E o \in Outcomes : SweepFetchReturn(o)
    /\ sweep'.pc \in {"returned", "raised"}

\* This step ends the sweep's iteration for tn.
SweepItemDone(tn) ==
    /\ sweep.pc = "fetch" /\ sweep.cur = tn
    /\ Len(sweep'.fetched) = Len(sweep.fetched) + 1

\* This step ends a manual update of tn.
UpdateDone(tn) == updating.pc = "fetch" /\ updating.tn = tn /\ updating'.pc = "idle"

\* How the provider requests of the sweep's items ended.
Ends(sw) == {sw.fetched[i].end : i \in DOMAIN sw.fetched}
Failed(sw) == {sw.fetched[i].tn : i \in {j \in DOMAIN sw.fetched : sw.fetched[j].end # "ok"}}
Succeeded(sw) == {sw.fetched[i].tn : i \in {j \in DOMAIN sw.fetched : sw.fetched[j].end = "ok"}}

----------------------------------------------------------------------------
(* C1..C10                                                                  *)

\* C1: a refresh of a cached tracking number (update_package, in a sweep or
\* in a manual update) that gets a fresh record leaves the cached record and
\* the returned record with the custom name the cached record had.
C1_CustomNamePreserved ==
    [][\A tn \in Ids :
          ((SweepItemDone(tn) \/ UpdateDone(tn))
              /\ tn \in DOMAIN packages /\ result'.pkg # Nothing)
          => /\ packages'[tn].custom_name = packages[tn].custom_name
             /\ TheOne(result'.pkg).custom_name = packages[tn].custom_name]_vars

C1_Witness ==
    /\ result.op \in {"update_package", "async_update_package"}
    /\ result.pkg # Nothing
    /\ TheOne(result.pkg).custom_name = <<"Birthday gift">>
    /\ result.tn \in DOMAIN packages
    /\ packages[result.tn].custom_name = <<"Birthday gift">>

\* C2: a sweep over three tracking numbers whose second provider request
\* fails permanently, the other two succeeding, returns the records of the
\* first and the third, counts the second as a failure and records it as the
\* last error, and does not raise.
C2_PartialFailureRecorded ==
    (/\ SweepDone
     /\ Len(sweep.fetched) = 3
     /\ sweep.fetched[1].end = "ok"
     /\ sweep.fetched[2].end = "fatal"
     /\ sweep.fetched[3].end = "ok")
    => /\ sweep.pc = "returned"
       /\ sweep.pkgs = {sweep.fetched[1].tn, sweep.fetched[3].tn}
       /\ sweep.error_count = 1
       /\ last_error # None

\* C3: a sweep in which every provider request ends in a connection timeout
\* returns without raising and leaves a last message (or last error) that
\* tells of a transient condition.
C3_AllRetryableIsTransient ==
    (SweepDone /\ sweep.fetched # <<>> /\ Ends(sweep) = {"retryable"})
    => /\ sweep.pc = "returned"
       /\ \/ last_message[1] = "Temporary network issues"
          \/ last_error # None

\* C4: a sweep over a non-empty watch list in which every provider request
\* fails, one at least permanently, raises UpdateFailed.
C4_FatalSweepRaises ==
    (/\ SweepDone
     /\ sweep.fetched # <<>>
     /\ "ok" \notin Ends(sweep)
     /\ "fatal" \in Ends(sweep))
    => sweep.pc = "raised"

\* C5: a sweep raises only if none of its items succeeded and one at least
\* failed permanently; otherwise it returns, and it ends only after the
\* request of every item it took has ended, whether that item failed or not.
C5_RaisesOnlyWhenFatal ==
    /\ sweep.pc = "raised" => (Succeeded(sweep) = {} /\ "fatal" \in Ends(sweep))
    /\ (SweepDone /\ ~(Succeeded(sweep) = {} /\ "fatal" \in Ends(sweep)))
          => sweep.pc = "returned"
    /\ SweepDone => (sweep.todo = {} /\ sweep.pkgs = Succeeded(sweep))

C5_Witness ==
    /\ sweep.pc = "returned"
    /\ "retryable" \in Ends(sweep)
    /\ "ok" \in Ends(sweep)
    /\ sweep.pkgs = Succeeded(sweep)

\* C6: a tracking number that has a cached record and whose refresh fails in
\* a sweep is still a key of the dict that sweep returns.
C6_FailedItemStaysInResult ==
    (sweep.pc = "returned")
    => \A tn \in Failed(sweep) : tn \in DOMAIN packages => tn \in sweep.pkgs

\* C7: a sweep that ends with no failed item leaves last_error None and
\* last_message the success summary with the number of its records, whatever
\* last_error was before.
C7_SuccessClearsError ==
    [][(SweepEnds /\ Failed(sweep') = {})
        => /\ last_error' = None
           /\ last_message' = <<"Successfully updated", Len(sweep'.fetched)>>]_vars

C7_Witness ==
    /\ sweep.pc = "returned"
    /\ Len(sweep.fetched) = 2
    /\ Failed(sweep) = {}
    /\ last_error = None
    /\ last_message = <<"Successfully updated", 2>>

\* C8: when the create-or-get request or the normalization of its response
\* fails in an add, the watch list, the persisted list and the cache stay as
\* they were, the call returns False and last_error is set.
C8_FailedAddLeavesNoState ==
    [][\A o \in Outcomes \ {"ok"} :
          AddReturn(o)
          => /\ UNCHANGED <<tracking_numbers, persisted, packages>>
             /\ result'.op = "async_add_tracking" /\ ~result'.ok
             /\ last_error' # None]_vars

C8_Witness ==
    /\ result.op = "async_add_tracking" /\ ~result.ok
    /\ last_error = <<"Error adding tracking", result.tn>>
    /\ result.tn \notin tracking_numbers
    /\ result.tn \notin SetOf(persisted)
    /\ result.tn \notin DOMAIN packages

\* C9: when an add succeeds, its tracking number is in the watch list, in the
\* persisted list and in the cache, the cached record has the custom name
\* given (if one was given), the call returns True, last_error is None and
\* one refresh is requested.
C9_SuccessfulAdd ==
    [][AddReturn("ok")
        => /\ adding.tn \in tracking_numbers'
           /\ adding.tn \in SetOf(persisted')
           /\ adding.tn \in DOMAIN packages'
           /\ Truthy(adding.name)
                 => packages'[adding.tn].custom_name = adding.name
           /\ result'.op = "async_add_tracking" /\ result'.ok
           /\ result'.refreshes = 1
           /\ last_error' = None]_vars

C9_Witness ==
    /\ result.op = "async_add_tracking" /\ result.ok /\ result.refreshes = 1
    /\ result.tn \in tracking_numbers
    /\ result.tn \in SetOf(persisted)
    /\ result.tn \in DOMAIN packages
    /\ packages[result.tn].custom_name = <<"Birthday gift">>
    /\ last_error = None

\* C10: no run issues a delete-tracker request; a remove of a watched number
\* takes it out of the watch list, the persisted list and the cache and
\* returns True; a remove of a number not watched returns False and changes
\* nothing.
C10_RemoveIsLocal ==
    /\ [](delete_calls = {})
    /\ [][\A tn \in Ids :
             Remove(tn)
             => IF tn \in tracking_numbers
                THEN /\ tn \notin tracking_numbers'
                     /\ tn \notin SetOf(persisted')
                     /\ tn \notin DOMAIN packages'
                     /\ result'.op = "async_remove_tracking" /\ result'.ok
                ELSE /\ result'.op = "async_remove_tracking" /\ ~result'.ok
                     /\ UNCHANGED <<tracking_numbers, persisted, packages,
                                    last_error, last_message, delete_calls,
                                    sweep, adding, updating>>]_vars

C10_Witness ==
    /\ result.op = "async_remove_tracking" /\ result.ok
    /\ result.tn \notin tracking_numbers
    /\ result.tn \notin SetOf(persisted)
    /\ result.tn \notin DOMAIN packages
    /\ sweep.pc = "returned" /\ result.tn \in Succeeded(sweep)
    /\ delete_calls = {}

----------------------------------------------------------------------------
(* C11..C14: the webhook receiver.                                          *)

C12_UnwatchedWebhookAnswered200 ==
    [][\A payload \in Payloads :
          (/\ Webhook(TRUE, TRUE, payload)
           /\ PayloadTrackingNumber(payload) \notin tracking_numbers)
          => result'.status = 200 /\ result'.refreshes = 0]_vars

\* C13: the receiver answers 404 when no registration matches (whatever the
\* body), 400 when one matches and the body does not parse, 500 when
\* processing raises; with any of the three answers no refresh is triggered
\* and the cache, the watch list and the saved watch list are unchanged.
C13_WebhookErrorAnswers ==
    [][\A known \in BOOLEAN, parsed \in BOOLEAN, payload \in Payloads :
          Webhook(known, parsed, payload)
          => /\ ~known => result'.status = 404
             /\ (known /\ ~parsed) => result'.status = 400
             /\ (known /\ parsed /\ ApiProcessWebhookPayload(packages, payload).raised)
                   => result'.status = 500
             /\ result'.status \in {404, 400, 500}
                   => /\ result'.refreshes = 0
                      /\ packages' = packages
                      /\ tracking_numbers' = tracking_numbers
                      /\ persisted' = persisted]_vars

\* A webhook with an unknown id has been answered 404 while the cache and
\* the watch list held something.
C13_Witness ==
    /\ result.op = "webhook"
    /\ result.status = 404
    /\ result.refreshes = 0
    /\ DOMAIN packages # {}
    /\ tracking_numbers # {}

\* C14: a webhook whose parsed body names a watched tracking number is
\* answered 200 and triggers exactly one full sweep.
C14_WatchedWebhookOneSweep ==
    [][\A payload \in Payloads :
          (/\ Webhook(TRUE, TRUE, payload)
           /\ PayloadTrackingNumber(payload) \in tracking_numbers)
          => result'.status = 200 /\ result'.refreshes = 1]_vars

----------------------------------------------------------------------------
(* C15..C19: the provider client.                                           *)

Last(s) == s[Len(s)]

\* The failures section 4.1 of the specification calls retryable (connection
\* refused, DNS failure, timeout, network error), its timeouts, and the
\* failures it calls non-retryable (HTTP 4xx auth error, malformed response).
RetryableFailures == {"connector", "server_timeout", "total_timeout", "conn_reset"}
Timeouts == {"server_timeout", "total_timeout"}
PermanentFailures == {"http_401", "content_type", "json_decode"}

\* C15: create_tracker never issues a track (create) request for a tracking
\* number that has a tracker at the provider.
C15_NoCreateWhenTrackerExists ==
    [][\A o \in AttemptOutcomes :
          (RequestAttempt(o) /\ request.endpoint = "track")
          => upstream[creating.tn] = "none"]_vars

\* C16: a request makes at most 3 attempts, the k-th wait (after failed
\* attempt k - 1) is 2 * 2^(k - 1) seconds, a retryable failure is followed
\* by a wait while attempts are left, and a request that raises a retryable
\* failure has made all 3 attempts.
C16_BoundedRetryBackoff ==
    /\ Len(request.made) <= 3
    /\ \A k \in DOMAIN request.sleeps : request.sleeps[k] = 2 * (2 ^ (k - 1))
    /\ request.pc = "sleep" => Len(request.sleeps) = Len(request.made)
    /\ (request.pc = "raised" /\ Last(request.made) \in RetryableFailures)
          => Len(request.made) = 3

\* C17: a request that raises a timeout has made all its attempts.
C17_TimeoutIsRetried ==
    (request.pc = "raised" /\ Last(request.made) \in Timeouts)
       => /\ Len(request.made) = MAX_RETRIES
          /\ Len(request.sleeps) = MAX_RETRIES - 1

\* C18: a non-retryable failure ends the request: it is the last attempt,
\* the request raises, and no wait follows it (a request whose first attempt
\* fails so has made one attempt and slept never).
C18_NonRetryablePropagatesAtOnce ==
    \A i \in DOMAIN request.made :
       request.made[i] \in PermanentFailures
          => /\ i = Len(request.made)
             /\ request.pc = "raised"
             /\ Len(request.sleeps) = i - 1

\* A request has raised an HTTP 401 after one attempt and no wait.
C18_Witness ==
    /\ request.pc = "raised"
    /\ request.made = <<"http_401">>
    /\ request.sleeps = <<>>

\* C19: a request makes at most 3 attempts and is over once it has made
\* them, and its attempt counter counts the attempts of this call only (it
\* is 0 at the first attempt, whatever earlier calls did).
C19_RequestTerminatesFreshCounter ==
    /\ Len(request.made) <= 3
    /\ Len(request.made) = 3 => request.pc \in {"returned", "raised"}
    /\ request.pc = "attempt" => request.attempt = Len(request.made)
    /\ request.pc = "sleep" => request.attempt = Len(request.made) - 1

\* After a create_tracker call that raised, the list request of the next
\* call has made 3 attempts.
C19_Witness ==
    /\ calls = 2
    /\ creating.ret = "raised"
    /\ creating.pc = "find"
    /\ request.endpoint = "list"
    /\ Len(request.made) = 3

----------------------------------------------------------------------------
(* C20                                                                      *)

\* The last_error messages that tell of a failed operation on tn.
ErrorsAbout(tn) ==
    {<<"Error adding tracking", tn>>, <<"Error removing tracking", tn>>,
     <<"Error updating", tn>>}

\* C20: an add or a remove that returns False, and a manual update that gets
\* no record, leave last_error set to a message about that failure.
C20_SingleItemFailureRecorded ==
    [][/\ \A o \in Outcomes :
             (AddReturn(o) /\ ~result'.ok) => last_error' \in ErrorsAbout(adding.tn)
       /\ \A tn \in Ids :
             (Remove(tn) /\ ~result'.ok) => last_error' \in ErrorsAbout(tn)
       /\ \A o \in Outcomes :
             (UpdateReturn(o) /\ result'.pkg = Nothing)
                => last_error' \in ErrorsAbout(updating.tn)]_vars

----------------------------------------------------------------------------
(* C21..C24                                                                 *)

\* C21: when the provider has no tracker for the tracking number (the
\* request ends in an HTTP 404, or its response carries no tracking),
\* update_package returns None without raising and leaves the whole cache,
\* the entry of that tracking number included, as it was.
C21_AbsentTrackerReturnsNone ==
    [][\A o \in {"http_4xx", "no_number"} :
          (SweepFetchReturn(o) \/ UpdateReturn(o))
          => /\ result'.ok
             /\ result'.pkg = Nothing
             /\ packages' = packages]_vars

\* A sweep's refresh of a cached tracking number has ended in a permanent
\* failure: None was returned and the cached record is still there.
C21_Witness ==
    /\ result.op = "update_package"
    /\ result.ok
    /\ result.pkg = Nothing
    /\ result.tn \in DOMAIN packages
    /\ sweep.fetched # <<>>
    /\ Last(sweep.fetched) = [tn |-> result.tn, end |-> "fatal"]

\* C22: a step of any refresh (an item of a sweep, a manual update), whatever
\* other refreshes are in flight, leaves every cached record in the cache
\* with the custom name it had; hence so does every interleaving of them.
C22_OverlappingRefreshesKeepNames ==
    [][(\E o \in Outcomes : SweepFetchReturn(o) \/ UpdateReturn(o))
        => \A tn \in DOMAIN packages :
              /\ tn \in DOMAIN packages'
              /\ packages'[tn].custom_name = packages[tn].custom_name]_vars

\* A manual update of a named record has written the cache while the fetch
\* of a running sweep for the same tracking number is in flight.
C22_Witness ==
    /\ sweep.pc = "fetch"
    /\ Len(sweep.fetched) >= 1
    /\ result.op = "async_update_package"
    /\ result.tn = sweep.cur
    /\ result.pkg # Nothing
    /\ TheOne(result.pkg).custom_name = <<"Birthday gift">>
    /\ sweep.cur \in DOMAIN packages
    /\ packages[sweep.cur].custom_name = <<"Birthday gift">>

\* C23: a sweep awaits at most one update_package call at any moment, and a
\* step that starts the fetch of an item is the step in which the fetch the
\* sweep was awaiting (if any) ended.
C23_SweepFetchesSequentially ==
    /\ [](Cardinality(SweepInFlight(sweep)) <= 1)
    /\ [][\A tn \in SweepInFlight(sweep') :
             (tn \notin SweepInFlight(sweep)
                 \/ Len(sweep'.fetched) # Len(sweep.fetched))
             => \A prev \in SweepInFlight(sweep) :
                   /\ Len(sweep'.fetched) = Len(sweep.fetched) + 1
                   /\ Last(sweep'.fetched).tn = prev]_vars

\* The second fetch of a sweep over three tracking numbers is in flight.
C23_Witness ==
    /\ sweep.pc = "fetch"
    /\ Len(sweep.fetched) = 1
    /\ sweep.todo # {}
    /\ SweepInFlight(sweep) = {sweep.cur}
    /\ sweep.cur # sweep.fetched[1].tn

\* C24: the saved list always holds the tracking numbers of the watch list,
\* each once; loading what a save writes gives the watch list back; and a
\* restart starts from the saved watch list with an empty cache.
C24_PersistedListInSync ==
    /\ [](/\ SetOf(persisted) = tracking_numbers
          /\ Len(persisted) = Cardinality(tracking_numbers)
          /\ LoadTrackingNumbers(SaveTrackingNumbers(tracking_numbers))
                = tracking_numbers)
    /\ [][Restart => (tracking_numbers' = tracking_numbers
                        /\ packages' = EmptyDict)]_vars

\* An add has completed and the saved list holds both tracking numbers.
C24_Witness ==
    /\ result.op = "async_add_tracking"
    /\ result.ok
    /\ Len(persisted) = 2
    /\ SetOf(persisted) = tracking_numbers
    /\ result.tn \in DOMAIN packages

----------------------------------------------------------------------------
(* C25..C30: the normalizer.                                                *)

NormDone(fn) == norm.pc = "done" /\ norm.fn = fn

NonDecreasing(events) ==
    \A i, j \in DOMAIN events :
        i < j => events[i].timestamp.t <= events[j].timestamp.t

\* C25: whatever the raw events and their order, _parse_events returns them
\* in non-decreasing order of timestamp, and a record to_package_data returns
\* has its events in that order, its location, latitude, longitude and
\* last_update those of the last event, and no location or coordinates when
\* it has no events.
C25_EventOrderingInvariant ==
    /\ NormDone("_parse_events") =>
          /\ ~norm.out.raised
          /\ NonDecreasing(norm.out.events)
    /\ (NormDone("to_package_data") /\ ~norm.out.raised) =>
          LET p == TheOne(norm.out.pkg) IN
          /\ NonDecreasing(p.events)
          /\ p.events = <<>> =>
                p.location = None /\ p.latitude = None /\ p.longitude = None
          /\ p.events # <<>> =>
                /\ p.location = Last(p.events).location
                /\ p.latitude = Last(p.events).latitude
                /\ p.longitude = Last(p.events).longitude
                /\ p.last_update = Some(Last(p.events).timestamp)

\* One of the event's timestamp fields holds a date that parses.
HasParseableTimestamp(e) ==
    ParseDatetime(e.occurrenceDatetime) # Nothing \/ ParseDatetime(e.timestamp) # Nothing

Count(s, x) == Cardinality({i \in DOMAIN s : s[i] = x})

\* C26: the events _parse_events returns are, each as often as it came, the
\* raw events with a parseable timestamp and no others, and it raises only
\* if it also raises on the list without the events it drops.
C26_UnparseableEventDropped ==
    NormDone("_parse_events") =>
        /\ norm.out.raised => ParseEvents(SelectSeq(norm.arg, HasParseableTimestamp)).raised
        /\ ~norm.out.raised =>
              LET raw == [i \in DOMAIN norm.out.events |-> norm.out.events[i].raw_data]
              IN \A e \in RawEvents :
                     Count(raw, e) = IF HasParseableTimestamp(e)
                                     THEN Count(norm.arg, e) ELSE 0

\* C27: on a tracking object whose tracker.trackingNumber is absent or empty
\* to_package_data raises ValueError and returns no record, and an add or a
\* refresh that got this response leaves the cache as it was.
C27_MissingTrackingNumberFatal ==
    (NormDone("to_package_data") /\ norm.arg.trackingNumber \in {<<>>, <<"">>}) =>
        /\ norm.out.raised
        /\ norm.out.err = "ValueError"
        /\ norm.out.pkg = Nothing
        /\ \A pk \in {EmptyDict, DictSet(EmptyDict, "a", NewPackageData("a"))} :
              LET o      == ResponseOutcome(norm.out)
                  add    == ApiAddTracking(pk, "a", None, o)
                  update == ApiUpdatePackage(pk, "a", o)
              IN /\ add.raised /\ add.ret = Nothing /\ add.packages = pk
                 /\ update.ret = Nothing /\ update.packages = pk

C27_Witness ==
    /\ NormDone("to_package_data")
    /\ norm.arg.trackingNumber = <<"">>
    /\ norm.arg.shipment.shape = "dict"
    /\ norm.arg.events.shape = "list"
    /\ norm.out.raised
    /\ norm.out.err = "ValueError"

\* C28: on a tracking object that carries tracker.trackingNumber
\* to_package_data returns a record and raises nothing, whatever its other
\* fields.
C28_FailsOnlyForMissingNumber ==
    (NormDone("to_package_data") /\ norm.arg.trackingNumber = <<"a">>) =>
        ~norm.out.raised /\ norm.out.pkg # Nothing

StatusEnum ==
    {"pending", "in_transit", "out_for_delivery", "delivered", "exception", "unknown"}

\* C29: every status the normalizer gives, to a shipment or to an event, is
\* one of the six; a milestone that is not in the table, with no status code
\* or one that overrides nothing, gives unknown and the milestone itself as
\* status_text; milestone delivered without status code gives
\* (delivered, "Delivered").
C29_StatusClosedEnum ==
    /\ NormDone("_map_status_milestone") =>
          /\ norm.out.status \in StatusEnum
          /\ (/\ norm.arg.m # NoStr
              /\ Lower(norm.arg.m) \notin DOMAIN StatusMap
              /\ norm.arg.c \in {NoStr, <<"transit", "update">>})
                => norm.out = [status |-> "unknown", status_text |-> norm.arg.m]
          /\ (norm.arg.m = <<"delivered">> /\ norm.arg.c = NoStr)
                => norm.out = [status |-> "delivered", status_text |-> <<"Delivered">>]
    /\ (NormDone("to_package_data") /\ ~norm.out.raised) =>
          LET p == TheOne(norm.out.pkg) IN
          /\ p.status \in StatusEnum
          /\ \A i \in DOMAIN p.events : p.events[i].status \in StatusEnum

C29_Witness ==
    /\ NormDone("_map_status_milestone")
    /\ norm.arg = [m |-> <<"customs", "hold">>, c |-> <<"transit", "update">>]
    /\ norm.out = [status |-> "unknown", status_text |-> <<"customs", "hold">>]

\* C30 as stated: with a milestone and a status code both present, a status
\* code that contains delivered gives delivered, one that contains
\* out_for_delivery gives out_for_delivery, one that contains exception or
\* failed gives exception, whatever the milestone.
C30_OverrideBySubstring ==
    (NormDone("_map_status_milestone") /\ norm.arg.m # NoStr /\ norm.arg.c # NoStr) =>
        LET lc == Lower(norm.arg.c) IN
        IF Contains(lc, <<"delivered">>) THEN norm.out.status = "delivered"
        ELSE IF Contains(lc, <<"out", "for", "delivery">>)
        THEN norm.out.status = "out_for_delivery"
        ELSE (Contains(lc, <<"exception">>) \/ Contains(lc, <<"failed">>))
                => norm.out.status = "exception"

\* C30, amended: with a milestone and a status code both present, a status
\* code that contains delivery_delivered gives (delivered, "Delivered");
\* otherwise one that contains delivery_out_for_delivery gives
\* (out_for_delivery, "Out for Delivery"); otherwise one that contains
\* exception or failed gives (exception, "Exception"); whatever the
\* milestone, and in any letter case.
C30_OverrideByDeliverySubstring ==
    (NormDone("_map_status_milestone") /\ norm.arg.m # NoStr /\ norm.arg.c # NoStr) =>
        LET lc == Lower(norm.arg.c) IN
        IF Contains(lc, <<"delivery", "delivered">>)
        THEN norm.out = [status |-> "delivered", status_text |-> <<"Delivered">>]
        ELSE IF Contains(lc, <<"delivery", "out", "for", "delivery">>)
        THEN norm.out = [status |-> "out_for_delivery",
                         status_text |-> <<"Out for Delivery">>]
        ELSE (Contains(lc, <<"exception">>) \/ Contains(lc, <<"failed">>))
                => norm.out = [status |-> "exception", status_text |-> <<"Exception">>]

C30_Witness ==
    /\ NormDone("_map_status_milestone")
    /\ norm.arg = [m |-> <<"in", "transit">>, c |-> <<"delivery", "delivered">>]
    /\ norm.out = [status |-> "delivered", status_text |-> <<"Delivered">>]

----------------------------------------------------------------------------
(* C31..C34: the normalizer, continued.                                     *)

\* The courier the tracker declares: the string, or the first entry of the
\* list.
DeclaredCourierCode(t) ==
    IF t.courierCode.kind = "str" THEN t.courierCode.codes
    ELSE IF t.courierCode.kind = "list" /\ t.courierCode.codes # <<>>
    THEN <<t.courierCode.codes[1]>>
    ELSE None

\* C31: the carrier_code of a record is the courier code of its most recent
\* event when that event has one, and the code the tracker declares
\* otherwise.
C31_CarrierCodePreference ==
    (NormDone("to_package_data") /\ ~norm.out.raised) =>
        LET p == TheOne(norm.out.pkg)
            latestCode == IF p.events = <<>> THEN None
                          ELSE Last(p.events).raw_data.courierCode
        IN p.carrier_code = IF latestCode # None THEN latestCode
                            ELSE DeclaredCourierCode(norm.arg)

\* The first of the event's timestamp candidates, in priority order, that
\* parses.
FirstParseable(e) ==
    IF ParseDatetime(e.occurrenceDatetime) # Nothing
    THEN ParseDatetime(e.occurrenceDatetime)
    ELSE ParseDatetime(e.timestamp)

\* C32: when _parse_events returns, every raw event one of whose candidates
\* parses is in the result with the timestamp of the first candidate that
\* parses, and a raw event is missing only if none of its candidates parses.
C32_TimestampSelection ==
    (NormDone("_parse_events") /\ ~norm.out.raised) =>
        \A i \in DOMAIN norm.arg :
            LET e    == norm.arg[i]
                want == FirstParseable(e)
                got  == {j \in DOMAIN norm.out.events : norm.out.events[j].raw_data = e}
            IN IF want = Nothing THEN got = {}
               ELSE /\ got # {}
                    /\ \A j \in got : norm.out.events[j].timestamp = TheOne(want)

\* The object the tracking object is looked for in.
DataOf(r) == IF r.data.shape = "dict" THEN r.data.body ELSE r.top

\* C33: to_package_data normalizes element 0 of a non-empty "trackings"
\* array; without one, the "tracking" object; without either, the data
\* object itself.
C33_ResponseShapePriority ==
    NormDone("to_package_data(response)") =>
        LET data == DataOf(norm.arg) IN
        IF data.trackings.shape = "list" /\ data.trackings.list # <<>>
        THEN norm.out = ToPackageData(data.trackings.list[1])
        ELSE IF data.tracking.shape = "dict"
        THEN norm.out = ToPackageData(data.tracking.obj)
        ELSE data.tracking.shape = "absent" => norm.out = ToPackageData(data.bare)

C33_Witness ==
    /\ NormDone("to_package_data(response)")
    /\ norm.arg.data.shape = "dict"
    /\ Len(norm.arg.data.body.trackings.list) = 2
    /\ norm.arg.data.body.tracking.shape = "dict"
    /\ norm.arg.data.body.bare.trackingNumber = <<"d">>
    /\ ~norm.out.raised
    /\ TheOne(norm.out.pkg).tracking_number = "a"

\* C34: process_webhook on a non-empty "trackings" array returns what
\* to_package_data returns for element 0 in the fetch envelope, so a record
\* of element 0's tracking number, and None when that raises; on an empty,
\* null or missing array it returns None; it never raises.
C34_WebhookNormalization ==
    NormDone("process_webhook") =>
        /\ ~norm.out.raised
        /\ (norm.arg.shape = "list" /\ norm.arg.list # <<>>) =>
              LET live == ToPackageDataOfResponse(FetchEnvelope(norm.arg.list[1])) IN
              /\ norm.out.pkg = live.pkg
              /\ \A p \in norm.out.pkg :
                     <<p.tracking_number>> = norm.arg.list[1].trackingNumber
              /\ norm.arg.list[1] \in PlainTrackings => norm.out.pkg # Nothing
        /\ (norm.arg.shape \in {"absent", "null"} \/ norm.arg.list = <<>>) =>
              norm.out.pkg = Nothing

C34_Witness ==
    /\ NormDone("process_webhook")
    /\ norm.arg.shape = "list"
    /\ Len(norm.arg.list) = 2
    /\ norm.arg.list[1].trackingNumber = <<"a">>
    /\ norm.arg.list[2].trackingNumber = <<"b">>
    /\ norm.out.pkg # Nothing
    /\ TheOne(norm.out.pkg).tracking_number = "a"

----------------------------------------------------------------------------
(* C35..C39: the coordinator under interleaving.                            *)

\* C35: when the fetch of a sweep returns for a tracking number that is no
\* longer in the watch list (it was removed while the sweep was suspended)
\* and that no add is under way for, the number is neither cached nor put
\* into the sweep's result.
C35_RemovedIdStaysRemoved ==
    [][\A o \in Outcomes :
          (/\ SweepFetchReturn(o)
           /\ sweep.cur \notin tracking_numbers
           /\ sweep.cur \notin DOMAIN packages
           /\ ~(adding.pc # "idle" /\ adding.tn = sweep.cur))
             => /\ sweep.cur \notin DOMAIN packages'
                /\ sweep.cur \notin sweep'.pkgs]_vars

\* A refresh of tn is suspended on its provider fetch.
RefreshInFlight(tn) ==
    \/ sweep.pc = "fetch" /\ sweep.cur = tn
    \/ updating.pc = "fetch" /\ updating.tn = tn

\* C36: a set_custom_name(tn, n) that succeeds while a refresh of tn is
\* suspended stores n and leaves the refresh suspended, and the return of a
\* refresh keeps the custom name of the record it replaces: the refresh ends
\* with n cached.
C36_NameSetDuringRefreshKept ==
    /\ [][\A tn \in Ids, n \in Names :
             (SetCustomName(tn, n) /\ result'.ok /\ RefreshInFlight(tn))
                => /\ packages'[tn].custom_name = n
                   /\ sweep' = sweep /\ updating' = updating]_vars
    /\ [][\A tn \in Ids, n \in Names :
             (/\ \E o \in Outcomes :
                    \/ (SweepFetchReturn(o) /\ sweep.cur = tn)
                    \/ (UpdateReturn(o) /\ updating.tn = tn)
              /\ tn \in DOMAIN packages
              /\ packages[tn].custom_name = n)
                => /\ tn \in DOMAIN packages'
                   /\ packages'[tn].custom_name = n]_vars

C36_Witness ==
    /\ result.op = "set_custom_name"
    /\ result.ok
    /\ RefreshInFlight(result.tn)
    /\ sweep.pc = "fetch"
    /\ packages[result.tn].custom_name = <<"Birthday gift">>

\* C37: an add without custom name of a tracking number that is tracked and
\* cached with a custom name leaves that name on the cached record.
C37_ReAddKeepsCustomName ==
    [][\A o \in Outcomes :
          (/\ AddReturn(o)
           /\ result'.ok
           /\ ~Truthy(adding.name)
           /\ adding.tn \in tracking_numbers
           /\ adding.tn \in DOMAIN packages
           /\ Truthy(packages[adding.tn].custom_name))
             => packages'[adding.tn].custom_name = packages[adding.tn].custom_name]_vars

\* C38: a sweep that returns with error_count 0 and last_error cleared has a
\* record for every tracking number it went through.
C38_FullSuccessSweepComplete ==
    [][(/\ SweepEnds
        /\ sweep'.pc = "returned"
        /\ sweep'.error_count = 0
        /\ last_error' = None)
          => \A i \in DOMAIN sweep'.fetched : sweep'.fetched[i].tn \in sweep'.pkgs]_vars

\* The tracking numbers a sweep has attempted, and those it has attempted,
\* is attempting or has still to attempt.
Attempted(sw) == {sw.fetched[i].tn : i \in DOMAIN sw.fetched}
Snapshot(sw) == Attempted(sw) \cup (IF sw.pc = "fetch" THEN {sw.cur} ELSE {}) \cup sw.todo

\* C39: a sweep starts with the watch list of that moment as the numbers to
\* attempt; no step of anything else, and no step of its own, changes that
\* set while it runs; it attempts no number twice and, once ended, has
\* attempted them all; and a sweep that is suspended ends if its provider
\* requests end.
C39_SweepWorksOnSnapshot ==
    /\ [](/\ Len(sweep.fetched) = Cardinality(Attempted(sweep))
          /\ sweep.todo \cap Attempted(sweep) = {}
          /\ sweep.pc = "fetch" => sweep.cur \notin Attempted(sweep) \cup sweep.todo
          /\ SweepDone => sweep.todo = {})
    /\ [][/\ SweepStart => Snapshot(sweep') = tracking_numbers
          /\ (sweep.pc = "fetch" /\ ~Restart) => Snapshot(sweep') = Snapshot(sweep)]_vars
    /\ (sweep.pc = "fetch") ~> (sweep.pc # "fetch")

C39_Witness ==
    /\ sweep.pc = "fetch"
    /\ Len(sweep.fetched) = 1
    /\ sweep.cur \notin tracking_numbers
    /\ result.op = "async_remove_tracking"
    /\ result.ok

----------------------------------------------------------------------------
(* C40                                                                      *)

\* C40: a client built without a session has its temporary session open
\* exactly while a request is running (attempting or sleeping), so every
\* attempt that ends a request, by returning, by raising after the retries
\* or by raising at once, leaves it closed; a client built with a session
\* never opens another one and never closes the one it was given.
C40_SessionOwnership ==
    /\ [](IF session.supplied
          THEN session.temp = "none" /\ ~session.supplied_closed
          ELSE /\ session.temp = "open" <=> request.pc \in {"attempt", "sleep"}
               /\ session.temp = "closed" <=> request.pc \in {"returned", "raised"})
    /\ [][\A o \in AttemptOutcomes :
             (RequestAttempt(o) /\ ~session.supplied /\ request'.pc # "sleep")
                => session.temp = "open" /\ session'.temp = "closed"]_vars

C40_Witness ==
    /\ ~session.supplied
    /\ request.pc = "raised"
    /\ Len(request.made) = MAX_RETRIES
    /\ session.temp = "closed"

====
